---- MODULE Spec2Model ----
(***************************************************************************)
(* Piper Alpha training progress tracker: the backend's identity store,   *)
(* progress store, bearer tokens and access decisions (src/backend/app).   *)
(*                                                                         *)
(* Values.  A JSON score is int-or-str (schemas.ChapterData.score); it is  *)
(* kept as a tagged pair <<"int", n>> or <<"str", s>> so that the integer  *)
(* 9 and the strings "9" and "NA" stay different values.  Time is counted  *)
(* in whole days, the unit of ACCESS_TOKEN_EXPIRE_DAYS.                    *)
(***************************************************************************)
EXTENDS Integers, Sequences, FiniteSets, TLC

VARIABLES
    users,        \* table "users": email -> [hashed_password, role, trainee_name]
    performance,  \* table "performance_data": row i has id i
    now,          \* datetime.utcnow(), in days
    wire,         \* bearer tokens that exist outside the server
    issued,       \* history: the calls of create_access_token made so far
    resp,         \* the HTTP response of the last request
    arg,          \* argument of the function under study (pure-function specs)
    ret,          \* its result
    calls,        \* POST /register requests being handled: caller -> progress
    session_state \* the dashboard's st.session_state: token, user, page

vars == <<users, performance, now, wire, issued, resp, arg, ret, calls,
          session_state>>

----------------------------------------------------------------------------
(* config.py *)

VALID_CHAPTERS ==
    << "Briefing Room", "Arrival on Piper Alpha", "Maintenance Area",
       "Precursor to Disaster", "Explosion Simulation", "Escape Aftermath",
       "Debrief" >>

VALID_STATUSES == {"Completed", "Pending", "Not Completed"}

VALID_ROLES == {"Trainee", "Admin"}

MIN_SCORE == 0

MAX_SCORE == 10

ACCESS_TOKEN_EXPIRE_DAYS == 30

SECRET_KEY == "dev-secret-key-change-in-production"

----------------------------------------------------------------------------
(* Helpers on sequences and JSON values *)

Range(s) == {s[i] : i \in DOMAIN s}

IntScore(n) == <<"int", n>>

StrScore(s) == <<"str", s>>

NA == StrScore("NA")

None == "None"

\* "no value yet" for a variable that holds a list
NoResult == << >>

----------------------------------------------------------------------------
(* crud.create_performance_data: auto-fill and sort *)

\* key of the sort when the chapter is not in VALID_CHAPTERS
DEFAULT_ORDER == 999

\* chapter_order.get(x["chapter"], 999)
ChapterOrder(ch) ==
    IF \E i \in DOMAIN VALID_CHAPTERS : VALID_CHAPTERS[i] = ch
    THEN (CHOOSE i \in DOMAIN VALID_CHAPTERS : VALID_CHAPTERS[i] = ch) - 1
    ELSE DEFAULT_ORDER

\* submitted_chapters = {chapter["chapter"] for chapter in chapter_data}
SubmittedChapters(chapter_data) == {e.chapter : e \in Range(chapter_data)}

\* the loop over VALID_CHAPTERS appending an entry for each missing chapter
RECURSIVE AutoFill(_, _, _)
AutoFill(complete, submitted, i) ==
    IF i > Len(VALID_CHAPTERS) THEN complete
    ELSE IF VALID_CHAPTERS[i] \notin submitted
         THEN AutoFill(Append(complete,
                              [chapter |-> VALID_CHAPTERS[i],
                               score   |-> NA,
                               status  |-> "Not Completed"]),
                       submitted, i + 1)
         ELSE AutoFill(complete, submitted, i + 1)

\* position of x in an already sorted list: after every element whose key is
\* not greater (list.sort is stable)
RECURSIVE InsertByOrder(_, _)
InsertByOrder(sorted, x) ==
    IF sorted = << >> THEN << x >>
    ELSE IF ChapterOrder(sorted[Len(sorted)].chapter) <= ChapterOrder(x.chapter)
         THEN Append(sorted, x)
         ELSE Append(InsertByOrder(SubSeq(sorted, 1, Len(sorted) - 1), x),
                     sorted[Len(sorted)])

\* complete_chapter_data.sort(key=lambda x: chapter_order.get(x["chapter"], 999))
RECURSIVE SortByChapterOrder(_)
SortByChapterOrder(s) ==
    IF s = << >> THEN << >>
    ELSE InsertByOrder(SortByChapterOrder(SubSeq(s, 1, Len(s) - 1)), s[Len(s)])

\* mutant: the auto-filled list is stored without the sort
CompleteChapterDataUnsorted(chapter_data) ==
    AutoFill(chapter_data, SubmittedChapters(chapter_data), 1)

\* the chapter_data column of the row create_performance_data stores
CompleteChapterData(chapter_data) ==
    SortByChapterOrder(
        AutoFill(chapter_data, SubmittedChapters(chapter_data), 1))

----------------------------------------------------------------------------
(* schemas.py: request validation (a failure is answered 422 before the    *)
(* endpoint function runs)                                                 *)

\* mutant: the chapter validator accepts any name
ValidChapterAny(v) == TRUE

\* ChapterData.validate_chapter
ValidChapter(v) == \E i \in DOMAIN VALID_CHAPTERS : VALID_CHAPTERS[i] = v

\* mutant: the range of an integer score is not tested
ValidScoreAnyInt(v) ==
    IF v[1] = "str" THEN v[2] = "NA"
    ELSE TRUE

\* ChapterData.validate_score
ValidScore(v) ==
    IF v[1] = "str" THEN v[2] = "NA"
    ELSE v[2] >= MIN_SCORE /\ v[2] <= MAX_SCORE

\* ChapterData.validate_status
ValidStatus(v) == v \in VALID_STATUSES

ValidChapterData(e) ==
    ValidChapter(e.chapter) /\ ValidScore(e.score) /\ ValidStatus(e.status)

\* mutant: validate_chapters_not_empty is missing
ValidPerformanceSubmitMaybeEmpty(chapters) ==
    \A i \in DOMAIN chapters : ValidChapterData(chapters[i])

\* PerformanceSubmit: every entry is a ChapterData, validate_chapters_not_empty
ValidPerformanceSubmit(chapters) ==
    /\ \A i \in DOMAIN chapters : ValidChapterData(chapters[i])
    /\ Len(chapters) # 0

MIN_PASSWORD_LENGTH == 8

\* UserCreate: password min_length=8, validate_role, trainee_name min_length=1
ValidUserCreate(password, role, trainee_name) ==
    /\ Len(password) >= MIN_PASSWORD_LENGTH
    /\ role \in VALID_ROLES
    /\ Len(trainee_name) >= 1

----------------------------------------------------------------------------
(* auth.py: password hashing and tokens *)

\* bcrypt keys its cipher with at most this many bytes of the password
BCRYPT_MAX_BYTES == 72

\* the bytes of the password bcrypt uses (passlib's bcrypt handler truncates
\* silently: truncate_error is off by default)
BcryptKey(password) ==
    IF Len(password) > BCRYPT_MAX_BYTES THEN SubSeq(password, 1, BCRYPT_MAX_BYTES)
    ELSE password

\* pwd_context.hash: bcrypt of the password under a fresh salt, the salt
\* embedded in the result
get_password_hash(password, salt) == <<"bcrypt", salt, BcryptKey(password)>>

\* pwd_context.verify: re-derive with the embedded salt and compare
verify_password(plain_password, hashed_password) ==
    get_password_hash(plain_password, hashed_password[2]) = hashed_password

\* HS256 signature of the payload {sub, exp} under a key
Sign(key, sub, exp) == <<"HS256", key, sub, exp>>

\* expires_delta: Optional[timedelta]; << >> is None, <<d>> is timedelta(days=d)
NoDelta == << >>

Delta(d) == << d >>

\* truth value of `if expires_delta:` (None and timedelta(0) are false)
Truthy(expires_delta) == expires_delta # NoDelta /\ expires_delta[1] # 0

create_access_token(sub, expires_delta, at) ==
    LET expire == IF Truthy(expires_delta)
                  THEN at + expires_delta[1]
                  ELSE at + ACCESS_TOKEN_EXPIRE_DAYS
    IN  [sub |-> sub, exp |-> expire, sig |-> Sign(SECRET_KEY, sub, expire)]

\* mutant: the claims are read without verifying the signature
decode_unverified(token, at) ==
    IF ~(token.exp < at) THEN token.sub ELSE None

\* jwt.decode checks the signature under SECRET_KEY and the exp claim (a token
\* is expired when exp < now); any JWTError gives None
decode_access_token(token, at) ==
    IF token.sig = Sign(SECRET_KEY, token.sub, token.exp) /\ ~(token.exp < at)
    THEN token.sub
    ELSE None

----------------------------------------------------------------------------
(* crud.py: the two tables *)

UserExists(email) == \E u \in users : u.email = email

\* get_user_by_email, for an email that has a row
get_user_by_email(email) == CHOOSE u \in users : u.email = email

\* get_user_performance_data (the rows; skip=0 and limit=100 never cut them
\* here, and the order among equal timestamps is the database's)
get_user_performance_data(email) ==
    {performance[i] : i \in {j \in DOMAIN performance : performance[j].email = email}}

get_all_performance_data == Range(performance)

\* the row create_performance_data adds
NewPerformance(email, chapter_data) ==
    [id                |-> Len(performance) + 1,
     email             |-> email,
     session_timestamp |-> now,
     chapter_data      |-> CompleteChapterData(chapter_data)]

----------------------------------------------------------------------------
(* pdf_generator.py: statistics and remarks.  Decimal results are kept in   *)
(* tenths: average_score 81 is 8.1, completion_rate 1000 is 100.0.          *)

\* the entries whose score is not "NA"
Scored(chapter_data) == SelectSeq(chapter_data, LAMBDA c : c.score # NA)

\* sum(total_scores): int(score) of every scored entry
RECURSIVE SumScores(_)
SumScores(scored) ==
    IF scored = << >> THEN 0
    ELSE Head(scored).score[2] + SumScores(Tail(scored))

\* mutant: the digits after the first decimal are cut off
Truncate1(num, den) == (10 * num) \div den

\* round(num / den, 1) in tenths, for den > 0: the nearest tenth, and the even
\* one of the two when num / den lies exactly between them (Python's round;
\* the quotients that lie exactly between have den 4 or 8 and are exact floats)
Round1(num, den) ==
    LET q == (10 * num) \div den
        r == (10 * num) % den
    IN  IF 2 * r < den THEN q
        ELSE IF 2 * r > den THEN q + 1
        ELSE IF q % 2 = 0 THEN q ELSE q + 1

\* calculate_statistics, for a list with at least one entry (the division by
\* len(chapter_data) raises ZeroDivisionError for an empty one)
calculate_statistics(chapter_data) ==
    LET completed_count ==
            Cardinality({i \in DOMAIN chapter_data :
                            chapter_data[i].status = "Completed"})
        total_scores == Scored(chapter_data)
    IN  [completed_count |-> completed_count,
         total_count     |-> Len(chapter_data),
         average_score   |-> IF total_scores # << >>
                             THEN Round1(SumScores(total_scores), Len(total_scores))
                             ELSE 0,
         completion_rate |-> Round1(completed_count * 100, Len(chapter_data))]

\* mutant: the two tests of the remarks are made in the other order
RemarkStartedFirst(stats) ==
    IF stats.completed_count > 0 THEN "Partial"
    ELSE IF stats.completed_count = stats.total_count THEN "FullCompletion"
    ELSE "NotStarted"

\* generate_course_report: which of the three remarks texts is written
Remark(stats) ==
    IF stats.completed_count = stats.total_count THEN "FullCompletion"
    ELSE IF stats.completed_count > 0 THEN "Partial"
    ELSE "NotStarted"

\* generate_course_report: what the PDF is rendered from
generate_course_report(user_data, session_data) ==
    [user_data    |-> user_data,
     session_data |-> session_data,
     stats        |-> calculate_statistics(session_data.chapter_data),
     remark       |-> Remark(calculate_statistics(session_data.chapter_data))]

----------------------------------------------------------------------------
(* HTTP responses.  who/target/sid/sent repeat the request the response    *)
(* answers (requester's token subject, email, session id, and what was     *)
(* sent: the submitted chapters, the registration, the login password, or    *)
(* the token with the day of the request); status, detail, www (the        *)
(* WWW-Authenticate header) and body are what the caller receives.         *)

Response(op, status, detail, www, body, who, target, sid) ==
    [op |-> op, status |-> status, detail |-> detail, www |-> www,
     body |-> body, who |-> who, target |-> target, sid |-> sid, sent |-> << >>]

NoResponse == Response("none", 0, "", FALSE, {}, None, None, 0)

\* get_current_user's credentials_exception
CredentialsException(op, who, target, sid) ==
    Response(op, 401, "Could not validate credentials", TRUE, {}, who, target, sid)

\* mutant: the `user is None` test after the lookup is dropped
TokenDecodes(token) == decode_access_token(token, now) # None

\* mutant: a token is accepted only while the dashboard session that
\* received it is open, as if logout revoked it
AuthenticatedInSession(token) ==
    /\ decode_access_token(token, now) # None
    /\ UserExists(decode_access_token(token, now))
    /\ session_state.token = << token >>

\* get_current_user: the token decodes and its subject has a row
Authenticated(token) ==
    /\ decode_access_token(token, now) # None
    /\ UserExists(decode_access_token(token, now))

current_user(token) == get_user_by_email(decode_access_token(token, now))

----------------------------------------------------------------------------
(* main.py: the endpoints, one action each *)

\* the user row crud.create_user inserts
NewUser(email, password, role, trainee_name, salt) ==
    [email           |-> email,
     hashed_password |-> get_password_hash(password, salt),
     role            |-> role,
     trainee_name    |-> trainee_name,
     created_at      |-> now]

\* what a register request carries besides the email
Registration(password, role, trainee_name) ==
    << [password |-> password, role |-> role, trainee_name |-> trainee_name] >>

\* mutant: the lookup of the email before the insert is dropped
RegisterUnchecked(email, password, role, trainee_name, salt) ==
    /\ IF ~ValidUserCreate(password, role, trainee_name)
       THEN /\ resp' = [Response("register", 422, "validation error", FALSE, {},
                                 None, email, 0)
                           EXCEPT !.sent = Registration(password, role, trainee_name)]
            /\ UNCHANGED users
       ELSE /\ users' = users \cup {NewUser(email, password, role, trainee_name, salt)}
            /\ resp' = [Response("register", 201, "", FALSE,
                                 {NewUser(email, password, role, trainee_name, salt)},
                                 None, email, 0)
                           EXCEPT !.sent = Registration(password, role, trainee_name)]
    /\ UNCHANGED <<performance, now, wire, issued, arg, ret, calls,
                   session_state>>

\* POST /register
Register(email, password, role, trainee_name, salt) ==
    /\ IF ~ValidUserCreate(password, role, trainee_name)
       THEN /\ resp' = [Response("register", 422, "validation error", FALSE, {},
                                 None, email, 0)
                           EXCEPT !.sent = Registration(password, role, trainee_name)]
            /\ UNCHANGED users
       ELSE IF UserExists(email)
       THEN /\ resp' = [Response("register", 400, "Email already registered",
                                 FALSE, {}, None, email, 0)
                           EXCEPT !.sent = Registration(password, role, trainee_name)]
            /\ UNCHANGED users
       ELSE /\ users' = users \cup {NewUser(email, password, role, trainee_name, salt)}
            /\ resp' = [Response("register", 201, "", FALSE,
                                 {NewUser(email, password, role, trainee_name, salt)},
                                 None, email, 0)
                           EXCEPT !.sent = Registration(password, role, trainee_name)]
    /\ UNCHANGED <<performance, now, wire, issued, arg, ret, calls,
                   session_state>>

\* auth.authenticate_user: TRUE when it returns the user, FALSE when None
authenticate_user(email, password) ==
    IF ~UserExists(email) THEN FALSE
    ELSE IF ~verify_password(password, get_user_by_email(email).hashed_password)
    THEN FALSE
    ELSE TRUE

\* mutant: the detail tells an unknown email from a wrong password
LoginFailureRevealing(email, password) ==
    Response("login", 401,
             IF UserExists(email) THEN "Incorrect password" ELSE "Email not registered",
             TRUE, {}, None, email, 0)

\* login's HTTPException when authenticate_user returns None
LoginFailure(email, password) ==
    Response("login", 401, "Incorrect email or password", TRUE, {}, None, email, 0)

\* POST /login
Login(email, password) ==
    /\ IF ~authenticate_user(email, password)
       THEN /\ resp' = [LoginFailure(email, password) EXCEPT !.sent = << password >>]
            /\ UNCHANGED <<wire, issued>>
       ELSE LET access_token ==
                    create_access_token(email, Delta(ACCESS_TOKEN_EXPIRE_DAYS), now)
            IN  /\ wire' = wire \cup {access_token}
                /\ issued' = issued \cup
                       {[token |-> access_token, sub |-> email,
                         expires_delta |-> Delta(ACCESS_TOKEN_EXPIRE_DAYS),
                         at |-> now]}
                /\ resp' = [Response("login", 200, "", FALSE, {access_token},
                                     None, email, 0)
                               EXCEPT !.sent = << password >>]
    /\ UNCHANGED <<users, performance, now, arg, ret, calls,
                   session_state>>

\* mutant: the endpoint depends on get_current_user and accepts a submission
\* only from a caller who holds a valid token of the submitted email
SubmitPerformanceAuthenticated(email, chapters) ==
    /\ IF ~ValidPerformanceSubmit(chapters)
       THEN /\ resp' = [Response("submit_performance", 422, "validation error",
                                 FALSE, {}, None, email, 0)
                           EXCEPT !.sent = chapters]
            /\ UNCHANGED performance
       ELSE IF ~\E t \in wire : Authenticated(t) /\ t.sub = email
       THEN /\ resp' = [CredentialsException("submit_performance", None, email, 0)
                           EXCEPT !.sent = chapters]
            /\ UNCHANGED performance
       ELSE IF ~UserExists(email)
       THEN /\ resp' = [Response("submit_performance", 404,
                                 "User not found with email", FALSE, {}, None, email, 0)
                           EXCEPT !.sent = chapters]
            /\ UNCHANGED performance
       ELSE /\ performance' = Append(performance, NewPerformance(email, chapters))
            /\ resp' = [Response("submit_performance", 201,
                                 "Performance data submitted successfully", FALSE, {},
                                 None, email, Len(performance) + 1)
                           EXCEPT !.sent = chapters]
    /\ UNCHANGED <<users, now, wire, issued, arg, ret, calls,
                   session_state>>

\* mutant: the record is written before the user is looked up
SubmitPerformanceWriteFirst(email, chapters) ==
    /\ IF ~ValidPerformanceSubmit(chapters)
       THEN /\ resp' = [Response("submit_performance", 422, "validation error",
                                 FALSE, {}, None, email, 0)
                           EXCEPT !.sent = chapters]
            /\ UNCHANGED performance
       ELSE /\ performance' = Append(performance, NewPerformance(email, chapters))
            /\ resp' = [(IF ~UserExists(email)
                         THEN Response("submit_performance", 404,
                                       "User not found with email", FALSE, {},
                                       None, email, 0)
                         ELSE Response("submit_performance", 201,
                                       "Performance data submitted successfully",
                                       FALSE, {}, None, email, Len(performance) + 1))
                           EXCEPT !.sent = chapters]
    /\ UNCHANGED <<users, now, wire, issued, arg, ret, calls,
                   session_state>>

\* mutant: the new record takes the place of the owner's earlier ones
SubmitPerformanceUpsert(email, chapters) ==
    /\ IF ~ValidPerformanceSubmit(chapters)
       THEN /\ resp' = [Response("submit_performance", 422, "validation error",
                                 FALSE, {}, None, email, 0)
                           EXCEPT !.sent = chapters]
            /\ UNCHANGED performance
       ELSE IF ~UserExists(email)
       THEN /\ resp' = [Response("submit_performance", 404,
                                 "User not found with email", FALSE, {}, None, email, 0)
                           EXCEPT !.sent = chapters]
            /\ UNCHANGED performance
       ELSE /\ performance' =
                   Append(SelectSeq(performance, LAMBDA r : r.email # email),
                          NewPerformance(email, chapters))
            /\ resp' = [Response("submit_performance", 201,
                                 "Performance data submitted successfully", FALSE, {},
                                 None, email, Len(performance) + 1)
                           EXCEPT !.sent = chapters]
    /\ UNCHANGED <<users, now, wire, issued, arg, ret, calls,
                   session_state>>

\* POST /performance (no authentication)
SubmitPerformance(email, chapters) ==
    /\ IF ~ValidPerformanceSubmit(chapters)
       THEN /\ resp' = [Response("submit_performance", 422, "validation error",
                                 FALSE, {}, None, email, 0)
                           EXCEPT !.sent = chapters]
            /\ UNCHANGED performance
       ELSE IF ~UserExists(email)
       THEN /\ resp' = [Response("submit_performance", 404,
                                 "User not found with email", FALSE, {}, None, email, 0)
                           EXCEPT !.sent = chapters]
            /\ UNCHANGED performance
       ELSE /\ performance' = Append(performance, NewPerformance(email, chapters))
            /\ resp' = [Response("submit_performance", 201,
                                 "Performance data submitted successfully", FALSE, {},
                                 None, email, Len(performance) + 1)
                           EXCEPT !.sent = chapters]
    /\ UNCHANGED <<users, now, wire, issued, arg, ret, calls,
                   session_state>>

\* GET /me: get_current_active_user passes get_current_user's row on.  The
\* response's sent field keeps the token presented and the day of the request.
ReadUsersMe(token) ==
    /\ resp' = [(IF ~Authenticated(token)
                 THEN CredentialsException("read_users_me", token.sub, None, 0)
                 ELSE Response("read_users_me", 200, "", FALSE,
                               {u \in users : u.email = token.sub},
                               token.sub, None, 0))
                   EXCEPT !.sent = << [token |-> token, at |-> now] >>]
    /\ UNCHANGED <<users, performance, now, wire, issued, arg, ret, calls,
                   session_state>>

\* mutant: `or` for `and` in the ownership check
NotSelfOrNotAdmin(user, email) == user.email # email \/ user.role # "Admin"

\* the ownership check of get_performance and download_report: TRUE when the
\* endpoint raises 403
NotSelfNorAdmin(user, email) == user.email # email /\ user.role # "Admin"

\* the token a read request presents and the day of the request
Presented(token) == << [token |-> token, at |-> now] >>

\* mutant: the existence of the requested user is checked before the ownership
GetPerformanceExistsFirst(token, email) ==
    /\ resp' =
          [(IF ~Authenticated(token)
            THEN CredentialsException("get_performance", token.sub, email, 0)
            ELSE IF ~UserExists(email)
            THEN Response("get_performance", 404, "User not found with email",
                          FALSE, {}, token.sub, email, 0)
            ELSE IF NotSelfNorAdmin(current_user(token), email)
            THEN Response("get_performance", 403,
                          "Not authorized to access this user's data", FALSE, {},
                          token.sub, email, 0)
            ELSE Response("get_performance", 200, "", FALSE,
                          get_user_performance_data(email), token.sub, email, 0))
             EXCEPT !.sent = Presented(token)]
    /\ UNCHANGED <<users, performance, now, wire, issued, arg, ret, calls,
                   session_state>>

\* GET /performance/{email}
GetPerformance(token, email) ==
    /\ resp' =
          [(IF ~Authenticated(token)
            THEN CredentialsException("get_performance", token.sub, email, 0)
            ELSE IF NotSelfNorAdmin(current_user(token), email)
            THEN Response("get_performance", 403,
                          "Not authorized to access this user's data", FALSE, {},
                          token.sub, email, 0)
            ELSE IF ~UserExists(email)
            THEN Response("get_performance", 404, "User not found with email",
                          FALSE, {}, token.sub, email, 0)
            ELSE Response("get_performance", 200, "", FALSE,
                          get_user_performance_data(email), token.sub, email, 0))
             EXCEPT !.sent = Presented(token)]
    /\ UNCHANGED <<users, performance, now, wire, issued, arg, ret, calls,
                   session_state>>

\* the document download_report streams for a stored session
Report(session_id) ==
    LET user == get_user_by_email(performance[session_id].email)
        user_data == [email        |-> user.email,
                      trainee_name |-> user.trainee_name,
                      role         |-> user.role]
        session_data ==
            [session_id        |-> performance[session_id].id,
             session_timestamp |-> performance[session_id].session_timestamp,
             chapter_data      |-> performance[session_id].chapter_data]
    IN  generate_course_report(user_data, session_data)

\* mutant: the session is looked up before the token is validated
DownloadReportLookupFirst(token, session_id) ==
    /\ resp' =
          [(IF session_id \notin DOMAIN performance
            THEN Response("download_report", 404,
                          "Performance session not found with ID", FALSE, {},
                          token.sub, None, session_id)
            ELSE IF ~Authenticated(token)
            THEN CredentialsException("download_report", token.sub, None, session_id)
            ELSE IF NotSelfNorAdmin(current_user(token), performance[session_id].email)
            THEN Response("download_report", 403,
                          "Not authorized to download this report", FALSE, {},
                          token.sub, performance[session_id].email, session_id)
            ELSE Response("download_report", 200, "", FALSE, {Report(session_id)},
                          token.sub, performance[session_id].email, session_id))
             EXCEPT !.sent = Presented(token)]
    /\ UNCHANGED <<users, performance, now, wire, issued, arg, ret, calls,
                   session_state>>

\* GET /download-report/{session_id}
DownloadReport(token, session_id) ==
    /\ resp' =
          [(IF ~Authenticated(token)
            THEN CredentialsException("download_report", token.sub, None, session_id)
            ELSE IF session_id \notin DOMAIN performance
            THEN Response("download_report", 404,
                          "Performance session not found with ID", FALSE, {},
                          token.sub, None, session_id)
            ELSE IF NotSelfNorAdmin(current_user(token), performance[session_id].email)
            THEN Response("download_report", 403,
                          "Not authorized to download this report", FALSE, {},
                          token.sub, performance[session_id].email, session_id)
            ELSE Response("download_report", 200, "", FALSE, {Report(session_id)},
                          token.sub, performance[session_id].email, session_id))
             EXCEPT !.sent = Presented(token)]
    /\ UNCHANGED <<users, performance, now, wire, issued, arg, ret, calls,
                   session_state>>

\* mutant: the role is compared with the wrong constant
NotTrainee(user) == user.role # "Trainee"

\* auth.get_current_admin_user, after get_current_user: TRUE when it raises 403
NotAdmin(user) == user.role # "Admin"

AdminForbidden(op, who) ==
    Response(op, 403, "Not enough permissions. Admin access required.", FALSE, {},
             who, None, 0)

\* GET /admin/users
GetAllUsers(token) ==
    /\ IF ~Authenticated(token)
       THEN resp' = CredentialsException("get_all_users", token.sub, None, 0)
       ELSE IF NotAdmin(current_user(token))
       THEN resp' = AdminForbidden("get_all_users", token.sub)
       ELSE resp' = Response("get_all_users", 200, "", FALSE, users,
                             token.sub, None, 0)
    /\ UNCHANGED <<users, performance, now, wire, issued, arg, ret, calls,
                   session_state>>

\* GET /admin/all-sessions
GetAllSessions(token) ==
    /\ IF ~Authenticated(token)
       THEN resp' = CredentialsException("get_all_sessions", token.sub, None, 0)
       ELSE IF NotAdmin(current_user(token))
       THEN resp' = AdminForbidden("get_all_sessions", token.sub)
       ELSE resp' = Response("get_all_sessions", 200, "", FALSE,
                             get_all_performance_data, token.sub, None, 0)
    /\ UNCHANGED <<users, performance, now, wire, issued, arg, ret, calls,
                   session_state>>

\* the clock advances by d days
Tick(d) ==
    /\ now' = now + d
    /\ UNCHANGED <<users, performance, wire, issued, resp, arg, ret, calls,
                   session_state>>

----------------------------------------------------------------------------
(* frontend/app.py: the Streamlit dashboard.  main() shows the login page   *)
(* while st.session_state.token is None and the dashboard otherwise; the    *)
(* forms of a page can be submitted only while the page is shown.           *)

\* main: the page rendered
View == IF session_state.token = << >> THEN "login" ELSE "dashboard"

\* schemas.UserResponse of a users row, as login_user keeps it
UserResponse(u) ==
    [email |-> u.email, role |-> u.role, trainee_name |-> u.trainee_name,
     created_at |-> u.created_at]

\* show_login_page, login form: login_user posts /login and, on 200, gets /me
\* with the new token; the session is set only when both answer 200
LoginSubmit(email, password) ==
    /\ View = "login"
    /\ IF email = "" \/ password = ""
       THEN UNCHANGED <<wire, issued, resp, session_state>>
       ELSE IF ~authenticate_user(email, password)
       THEN /\ resp' = [LoginFailure(email, password) EXCEPT !.sent = << password >>]
            /\ UNCHANGED <<wire, issued, session_state>>
       ELSE LET access_token ==
                    create_access_token(email, Delta(ACCESS_TOKEN_EXPIRE_DAYS), now)
            IN  /\ wire' = wire \cup {access_token}
                /\ issued' = issued \cup
                       {[token |-> access_token, sub |-> email,
                         expires_delta |-> Delta(ACCESS_TOKEN_EXPIRE_DAYS),
                         at |-> now]}
                /\ IF Authenticated(access_token)
                   THEN /\ resp' = [Response("read_users_me", 200, "", FALSE,
                                             {u \in users : u.email = email},
                                             email, None, 0)
                                       EXCEPT !.sent = Presented(access_token)]
                        /\ session_state' =
                               [token |-> << access_token >>,
                                user  |-> << UserResponse(get_user_by_email(email)) >>,
                                page  |-> "dashboard"]
                   ELSE /\ resp' = [CredentialsException("read_users_me", email,
                                                         None, 0)
                                       EXCEPT !.sent = Presented(access_token)]
                        /\ UNCHANGED session_state
    /\ UNCHANGED <<users, performance, now, arg, ret, calls>>

\* show_login_page, register form: the client-side checks, then POST /register;
\* st.session_state is not touched
RegisterSubmit(reg_email, reg_name, reg_role, reg_password, reg_confirm, salt) ==
    /\ View = "login"
    /\ IF \/ reg_email = "" \/ reg_name = "" \/ reg_password = "" \/ reg_confirm = ""
          \/ Len(reg_password) < 8
          \/ reg_password # reg_confirm
       THEN UNCHANGED vars
       ELSE Register(reg_email, reg_password, reg_role, reg_name, salt)

\* mutant: logout forgets to clear the user
LogoutKeepsUser ==
    /\ View = "dashboard"
    /\ session_state' = [session_state EXCEPT !.token = << >>, !.page = "login"]
    /\ UNCHANGED <<users, performance, now, wire, issued, resp, arg, ret, calls>>

\* show_dashboard, Logout button
Logout ==
    /\ View = "dashboard"
    /\ session_state' = [token |-> << >>, user |-> << >>, page |-> "login"]
    /\ UNCHANGED <<users, performance, now, wire, issued, resp, arg, ret, calls>>

\* show_dashboard: get_performance_data(user["email"], token) on every render
DashboardLoad ==
    /\ View = "dashboard"
    /\ GetPerformance(session_state.token[1], session_state.user[1].email)

----------------------------------------------------------------------------
(* Inputs of the requests *)

Emails == {"ana@piper.io", "bo@piper.io"}

Passwords == {"correct-horse", "battery-staple"}

\* bounds: rows of performance_data, the last day the clock reaches, and the
\* calls of create_access_token
MaxRecords == 2

MaxNow == 2

MaxIssued == 2

\* expires_delta arguments: absent, zero, one day
TokenDeltas == {NoDelta, Delta(0), Delta(1)}

Debrief9 == [chapter |-> "Debrief", score |-> IntScore(9), status |-> "Completed"]

BriefingNA == [chapter |-> "Briefing Room", score |-> NA, status |-> "Pending"]

Briefing7 == [chapter |-> "Briefing Room", score |-> IntScore(7), status |-> "Completed"]

BonusLevel == [chapter |-> "Bonus Level", score |-> IntScore(5), status |-> "Completed"]

Score11 == [chapter |-> "Debrief", score |-> IntScore(11), status |-> "Completed"]

ScoreBelow == [chapter |-> "Debrief", score |-> IntScore(-1), status |-> "Completed"]

ScoreText == [chapter |-> "Debrief", score |-> StrScore("9"), status |-> "Completed"]

StatusDone == [chapter |-> "Debrief", score |-> IntScore(9), status |-> "Done"]

\* submissions the game may send: empty, in and out of curriculum order, with
\* a repeated chapter, with an unknown chapter, a bad score, a bad status
SampleSubmissions ==
    { << >>,
      << Debrief9 >>,
      << Debrief9, BriefingNA >>,
      << BriefingNA, Debrief9 >>,
      << BriefingNA, Briefing7 >>,
      << BonusLevel >>,
      << Debrief9, BonusLevel >>,
      << Score11 >>,
      << ScoreBelow >>,
      << ScoreText >>,
      << StatusDone >> }

\* tokens a caller can present without the server's key: signed with another
\* key, or an issued token with its subject or expiry rewritten
ForgedTokens ==
    {[sub |-> e, exp |-> now + ACCESS_TOKEN_EXPIRE_DAYS,
      sig |-> Sign("attacker-key", e, now + ACCESS_TOKEN_EXPIRE_DAYS)] : e \in Emails}
    \cup UNION {{[t EXCEPT !.sub = e] : e \in Emails \ {t.sub}} : t \in wire}
    \cup {[t EXCEPT !.exp = t.exp + 1] : t \in wire}

Presentable == wire \cup ForgedTokens

\* clients that send POST /register at the same time
Callers == {"client-1", "client-2"}

\* no request is being handled
NoCalls ==
    [c \in Callers |-> [pc |-> "idle", email |-> None, password |-> None,
                         role |-> None, trainee_name |-> None, status |-> 0]]

\* st.session_state as initialised: token None, user None, page "login"
\* (<< >> is None, << x >> is x)
LoggedOut == [token |-> << >>, user |-> << >>, page |-> "login"]

InitIdle ==
    /\ users = {}
    /\ performance = << >>
    /\ now = 0
    /\ wire = {}
    /\ issued = {}
    /\ resp = NoResponse
    /\ calls = NoCalls
    /\ session_state = LoggedOut

Init ==
    /\ InitIdle
    /\ arg = NoResult
    /\ ret = NoResult

----------------------------------------------------------------------------
(* Specification Spec: registration, login, one kind of submission and the  *)
(* authenticated reads, within one day *)

Next ==
    \/ \E e \in Emails, r \in VALID_ROLES \cup {"Guest"} :
          Register(e, "correct-horse", r, "Trainee Name", "salt-1")
    \/ \E e \in Emails, p \in Passwords : Login(e, p)
    \/ \E e \in Emails :
          Len(performance) < MaxRecords /\ SubmitPerformance(e, << Debrief9 >>)
    \/ \E t \in Presentable, e \in Emails : GetPerformance(t, e)
    \/ \E t \in Presentable, id \in 1..(Len(performance) + 1) : DownloadReport(t, id)
    \/ \E t \in Presentable : GetAllUsers(t)
    \/ \E t \in Presentable : GetAllSessions(t)

Spec == Init /\ [][Next]_vars

----------------------------------------------------------------------------
(* Specification SpecSubmit: registration and submissions of every kind *)

NextSubmit ==
    \/ \E e \in Emails, r \in VALID_ROLES :
          Register(e, "correct-horse", r, "Trainee Name", "salt-1")
    \/ \E e \in Emails, c \in SampleSubmissions :
          Len(performance) < MaxRecords /\ SubmitPerformance(e, c)

SpecSubmit == Init /\ [][NextSubmit]_vars

----------------------------------------------------------------------------
(* Specification SpecTok: create_access_token and decode_access_token called *)
(* directly, while the clock advances a day at a time *)

\* a call of create_access_token({"sub": sub}, expires_delta)
IssueToken(sub, expires_delta) ==
    LET access_token == create_access_token(sub, expires_delta, now)
    IN  /\ wire' = wire \cup {access_token}
        /\ issued' = issued \cup
               {[token |-> access_token, sub |-> sub,
                 expires_delta |-> expires_delta, at |-> now]}
        /\ UNCHANGED <<users, performance, now, resp, arg, ret, calls,
                       session_state>>

\* a call of decode_access_token(token)
DecodeToken(token) ==
    /\ arg' = << [token |-> token, at |-> now] >>
    /\ ret' = << decode_access_token(token, now) >>
    /\ UNCHANGED <<users, performance, now, wire, issued, resp, calls,
                   session_state>>

NextTok ==
    \/ \E e \in Emails, d \in TokenDeltas :
          Cardinality(issued) < MaxIssued /\ IssueToken(e, d)
    \/ \E t \in Presentable : DecodeToken(t)
    \/ now < MaxNow /\ Tick(1)

SpecTok == Init /\ [][NextTok]_vars

----------------------------------------------------------------------------
(* Specification SpecAuth: the ways a request can fail to authenticate.     *)
(* Tokens are issued by login and, as in SpecTok, by direct calls of        *)
(* create_access_token: a token signed with the server's key outlives the   *)
(* users table it was issued against (init_db on a fresh database), so its  *)
(* subject may have no row.                                                 *)

NextAuth ==
    \/ \E e \in Emails : Register(e, "correct-horse", "Trainee", "Trainee Name", "salt-1")
    \/ \E e \in Emails, p \in Passwords :
          /\ Cardinality(issued) < MaxIssued \/ ~authenticate_user(e, p)
          /\ Login(e, p)
    \/ \E e \in Emails : Cardinality(issued) < MaxIssued /\ IssueToken(e, Delta(1))
    \/ \E t \in Presentable : ReadUsersMe(t)
    \/ now < MaxNow /\ Tick(1)

SpecAuth == Init /\ [][NextAuth]_vars

----------------------------------------------------------------------------
(* Specification SpecPwd: registration and login with short and long        *)
(* passwords, and get_password_hash / verify_password called directly *)

\* 72 characters
LongPrefix == "correct-horse-battery-staple-correct-horse-battery-staple-correct-horse-"

LongA == LongPrefix \o "-2024"

LongB == LongPrefix \o "-2025"

PwdInputs == {"correct-horse", "battery-staple", LongA, LongB}

Salts == {"salt-1", "salt-2"}

\* the password each identity registers with
RegistrationPassword(email) == IF email = "ana@piper.io" THEN LongA ELSE "correct-horse"

\* verify_password(presented, get_password_hash(registered)), the hash made
\* under the given salt
VerifyPassword(registered, presented, salt) ==
    /\ arg' = << [registered |-> registered, presented |-> presented, salt |-> salt] >>
    /\ ret' = << verify_password(presented, get_password_hash(registered, salt)) >>
    /\ UNCHANGED <<users, performance, now, wire, issued, resp, calls,
                   session_state>>

NextPwd ==
    \/ \E e \in Emails, s \in Salts :
          Register(e, RegistrationPassword(e), "Trainee", "Trainee Name", s)
    \/ \E e \in Emails, q \in PwdInputs : Login(e, q)
    \/ \E p \in PwdInputs, q \in PwdInputs, s \in Salts : VerifyPassword(p, q, s)

SpecPwd == Init /\ [][NextPwd]_vars

----------------------------------------------------------------------------
(* Specification SpecStats: calculate_statistics and the choice of the      *)
(* remark applied to lists of chapter results of every length up to the     *)
(* longest a record can have *)

\* longest list: the curriculum and one repeated chapter
MaxEntries == 8

\* the score and status an entry can carry
StatPayloads ==
    << [score |-> NA,           status |-> "Not Completed"],
       [score |-> IntScore(0),  status |-> "Not Completed"],
       [score |-> IntScore(6),  status |-> "Completed"],
       [score |-> IntScore(7),  status |-> "Completed"],
       [score |-> IntScore(8),  status |-> "Completed"],
       [score |-> IntScore(9),  status |-> "Completed"],
       [score |-> IntScore(10), status |-> "Completed"],
       [score |-> IntScore(5),  status |-> "Pending"] >>

\* the sequences of k payload indices in non-decreasing order (the statistics
\* are sums and counts over the list)
RECURSIVE PayloadChoices(_)
PayloadChoices(k) ==
    IF k = 0 THEN {<< >>}
    ELSE UNION {{Append(s, c) : c \in {d \in DOMAIN StatPayloads :
                                          s = << >> \/ d >= s[Len(s)]}} :
                s \in PayloadChoices(k - 1)}

\* the i-th entry of a list: the i-th chapter (the eighth entry repeats the
\* first chapter) with the chosen payload
StatEntry(i, c) ==
    [chapter |-> VALID_CHAPTERS[((i - 1) % Len(VALID_CHAPTERS)) + 1],
     score   |-> StatPayloads[c].score,
     status  |-> StatPayloads[c].status]

\* scores [9,8,7,6,8,9,10], all Completed
AllCompletedRecord ==
    [i \in 1..7 |-> [chapter |-> VALID_CHAPTERS[i],
                      score   |-> IntScore(<<9, 8, 7, 6, 8, 9, 10>>[i]),
                      status  |-> "Completed"]]

\* the lists of at most n entries, and the record above
StatInputs(n) ==
    {[i \in DOMAIN s |-> StatEntry(i, s[i])] :
        s \in UNION {PayloadChoices(k) : k \in 1..n}}
    \cup {AllCompletedRecord}

InitStats ==
    /\ InitIdle
    /\ arg \in StatInputs(MaxEntries)
    /\ ret = NoResult

\* one call of calculate_statistics on the chosen list, and the remark
\* generate_course_report chooses for its result
Summarize ==
    /\ ret = NoResult
    /\ ret' = << calculate_statistics(arg), Remark(calculate_statistics(arg)) >>
    /\ UNCHANGED <<users, performance, now, wire, issued, resp, arg, calls,
                   session_state>>

NextStats == Summarize

SpecStats == InitStats /\ [][NextStats]_vars

----------------------------------------------------------------------------
(* Specification SpecReport: trainees register, log in, submit and download *)
(* the reports of the stored sessions *)

ReportSubmissions == { << Debrief9 >>, << BriefingNA, Briefing7 >>, << Score11 >> }

NextReport ==
    \/ \E e \in Emails : Register(e, "correct-horse", "Trainee", "Trainee Name", "salt-1")
    \/ \E e \in Emails : Login(e, "correct-horse")
    \/ \E e \in Emails, c \in ReportSubmissions :
          Len(performance) < MaxRecords /\ SubmitPerformance(e, c)
    \/ \E t \in wire, id \in 1..(Len(performance) + 1) : DownloadReport(t, id)

SpecReport == Init /\ [][NextReport]_vars

----------------------------------------------------------------------------
(* Specification SpecRace: POST /register requests handled at the same time *)
(* (register_user is a sync endpoint, run in the server's thread pool).     *)
(* A request is two steps: the validation and the lookup of the email, and  *)
(* the insert with its commit.                                              *)

\* register_user up to the lookup: 422, 400, or on to create_user
RegisterCheck(c, email, password, role, trainee_name) ==
    LET call == [pc |-> "done", email |-> email, password |-> password,
                 role |-> role, trainee_name |-> trainee_name, status |-> 0]
    IN  /\ calls[c].pc \in {"idle", "done"}
        /\ IF ~ValidUserCreate(password, role, trainee_name)
           THEN /\ calls' = [calls EXCEPT ![c] = [call EXCEPT !.status = 422]]
                /\ resp' = [Response("register", 422, "validation error", FALSE,
                                     {}, None, email, 0)
                               EXCEPT !.sent = Registration(password, role, trainee_name)]
           ELSE IF UserExists(email)
           THEN /\ calls' = [calls EXCEPT ![c] = [call EXCEPT !.status = 400]]
                /\ resp' = [Response("register", 400, "Email already registered",
                                     FALSE, {}, None, email, 0)
                               EXCEPT !.sent = Registration(password, role, trainee_name)]
           ELSE /\ calls' = [calls EXCEPT ![c] = [call EXCEPT !.pc = "checked"]]
                /\ UNCHANGED resp
        /\ UNCHANGED <<users, performance, now, wire, issued, arg, ret,
                       session_state>>

\* crud.create_user: the INSERT and its commit.  email is the primary key of
\* users, so the commit of a second row with the email raises IntegrityError,
\* which nothing catches: the request ends with 500 and the row is not added.
RegisterInsert(c, salt) ==
    LET call == calls[c]
        row == NewUser(call.email, call.password, call.role, call.trainee_name, salt)
    IN  /\ call.pc = "checked"
        /\ IF UserExists(call.email)
           THEN /\ calls' = [calls EXCEPT ![c] = [call EXCEPT !.pc = "done",
                                                               !.status = 500]]
                /\ resp' = [Response("register", 500, "Internal Server Error",
                                     FALSE, {}, None, call.email, 0)
                               EXCEPT !.sent = Registration(call.password, call.role,
                                                            call.trainee_name)]
                /\ UNCHANGED users
           ELSE /\ users' = users \cup {row}
                /\ calls' = [calls EXCEPT ![c] = [call EXCEPT !.pc = "done",
                                                               !.status = 201]]
                /\ resp' = [Response("register", 201, "", FALSE, {row}, None,
                                     call.email, 0)
                               EXCEPT !.sent = Registration(call.password, call.role,
                                                            call.trainee_name)]
        /\ UNCHANGED <<performance, now, wire, issued, arg, ret, session_state>>

NextRace ==
    \/ \E c \in Callers, e \in Emails, r \in VALID_ROLES \cup {"Guest"} :
          RegisterCheck(c, e, "correct-horse", r, "Trainee Name")
    \/ \E c \in Callers : RegisterInsert(c, "salt-1")

SpecRace == Init /\ [][NextRace]_vars

----------------------------------------------------------------------------
(* Specification SpecSession: one dashboard (register, login, logout, the   *)
(* dashboard's load), the game's submissions and any holder of an issued    *)
(* token asking GET /me, while the clock advances by a day or by the        *)
(* lifetime of a token *)

NextSession ==
    \/ \E e \in Emails, p \in {"correct-horse", "short"} :
          RegisterSubmit(e, "Trainee Name", "Trainee", p, p, "salt-1")
    \/ \E e \in Emails, p \in Passwords \cup {""} :
          /\ Cardinality(issued) < MaxIssued \/ ~authenticate_user(e, p)
          /\ LoginSubmit(e, p)
    \/ Logout
    \/ DashboardLoad
    \/ \E t \in wire : ReadUsersMe(t)
    \/ Len(performance) < MaxRecords - 1
          /\ SubmitPerformance("ana@piper.io", << Debrief9 >>)
    \/ \E d \in {1, ACCESS_TOKEN_EXPIRE_DAYS} : now < MaxNow /\ Tick(d)

SpecSession == Init /\ [][NextSession]_vars

----------------------------------------------------------------------------
(* Specification SpecNorm: create_performance_data's normalisation applied  *)
(* to every duplicate-free submission of curriculum chapters, in any order *)

\* number of payload tables minus one (which score and status a chapter carries)
MaxShift == 1

SamplePayloads ==
    << [score |-> IntScore(9),  status |-> "Completed"],
       [score |-> NA,           status |-> "Pending"],
       [score |-> IntScore(0),  status |-> "Not Completed"],
       [score |-> IntScore(10), status |-> "Completed"] >>

SampleEntry(i, shift) ==
    LET p == SamplePayloads[((i + shift) % Len(SamplePayloads)) + 1]
    IN  [chapter |-> VALID_CHAPTERS[i], score |-> p.score, status |-> p.status]

\* the duplicate-free sequences of k chapter indices
RECURSIVE OrdersOfLength(_)
OrdersOfLength(k) ==
    IF k = 0 THEN {<< >>}
    ELSE UNION {{Append(s, c) : c \in DOMAIN VALID_CHAPTERS \ Range(s)} :
                s \in OrdersOfLength(k - 1)}

\* every order of every subset of the curriculum, as chapter indices
ChapterOrders == UNION {OrdersOfLength(k) : k \in 0..Len(VALID_CHAPTERS)}

NormInputs ==
    {[k \in DOMAIN s |-> SampleEntry(s[k], shift)] :
        s \in ChapterOrders, shift \in 0..MaxShift}

InitNorm ==
    /\ InitIdle
    /\ arg \in NormInputs
    /\ ret = NoResult

\* one call of the normalisation on the chosen submission
Normalize ==
    /\ ret = NoResult
    /\ ret' = CompleteChapterData(arg)
    /\ UNCHANGED <<users, performance, now, wire, issued, resp, arg, calls,
                   session_state>>

NextNorm == Normalize

SpecNorm == InitNorm /\ [][NextNorm]_vars

----------------------------------------------------------------------------
(* C1 *)

NAEntry(ch) == [chapter |-> ch, score |-> NA, status |-> "Not Completed"]

\* the list the claim describes: one entry per curriculum chapter, in
\* curriculum order, the submitted entry where there is one
ExpectedRecord(submitted) ==
    [i \in DOMAIN VALID_CHAPTERS |->
        IF \E e \in submitted : e.chapter = VALID_CHAPTERS[i]
        THEN CHOOSE e \in submitted : e.chapter = VALID_CHAPTERS[i]
        ELSE NAEntry(VALID_CHAPTERS[i])]

SwapAt(s, i) ==
    [k \in DOMAIN s |-> IF k = i THEN s[i + 1] ELSE IF k = i + 1 THEN s[i] ELSE s[k]]

\* C1: for a duplicate-free submission of 0..7 curriculum chapters in any
\* order, the normalised list has exactly 7 entries, one per curriculum
\* chapter in curriculum order, every submitted entry verbatim, every omitted
\* chapter as NA / Not Completed; and exchanging two neighbours of the
\* submission (hence any permutation of it) gives the same list.
C1_NormalizeComplete ==
    ret # NoResult =>
        /\ Len(ret) = 7
        /\ ret = ExpectedRecord(Range(arg))
        /\ \A i \in 1..(Len(arg) - 1) : CompleteChapterData(SwapAt(arg, i)) = ret

\* a full submission in reverse curriculum order has been normalised
C1_Witness ==
    /\ ret # NoResult
    /\ Len(arg) = 7
    /\ arg[1].chapter = "Debrief"
    /\ arg[7].chapter = "Briefing Room"
    /\ ret[1] = arg[7]

\* a partial submission out of order has been normalised
C1_WitnessPartial ==
    /\ ret # NoResult
    /\ Len(arg) = 2
    /\ arg[1].chapter = "Debrief"
    /\ arg[2].chapter = "Briefing Room"
    /\ ret[2] = NAEntry("Arrival on Piper Alpha")

----------------------------------------------------------------------------
(* C2, C3, C4: what SubmitPerformance stores (SpecSubmit) *)

HasRepeat(chapters) ==
    \E i, j \in DOMAIN chapters : i # j /\ chapters[i].chapter = chapters[j].chapter

HasUnknownChapter(chapters) ==
    \E i \in DOMAIN chapters : chapters[i].chapter \notin Range(VALID_CHAPTERS)

\* C2: every stored record has exactly as many entries as the curriculum (7),
\* no chapter twice, and its entries in curriculum order.
C2_RecordsCanonical ==
    \A r \in Range(performance) :
        /\ Len(r.chapter_data) = Len(VALID_CHAPTERS)
        /\ ~HasRepeat(r.chapter_data)
        /\ \A k \in DOMAIN r.chapter_data :
              k <= Len(VALID_CHAPTERS) => r.chapter_data[k].chapter = VALID_CHAPTERS[k]

\* C3: a submission (of a registered email, valid entry by entry) in which a
\* chapter id appears more than once fails with a validation error and stores
\* no record.
C3_DuplicateRejected ==
    (/\ resp.op = "submit_performance"
     /\ HasRepeat(resp.sent)
     /\ \A i \in DOMAIN resp.sent : ValidChapterData(resp.sent[i])
     /\ UserExists(resp.target))
    => (resp.status = 422 /\ resp.sid = 0)

\* C4: a submission containing a chapter id outside the curriculum is answered
\* with the validation error (422) and the step that answers it leaves the
\* progress store as it was; no stored record ever holds such a chapter.
C4_UnknownChapterRejected ==
    /\ [](\A r \in Range(performance) : ~HasUnknownChapter(r.chapter_data))
    /\ [][(resp'.op = "submit_performance" /\ HasUnknownChapter(resp'.sent))
            => (resp'.status = 422 /\ resp'.sid = 0 /\ performance' = performance)]_vars

\* a registered user's submission with an unknown chapter next to a valid one
\* has been answered, after an earlier submission was stored
C4_Witness ==
    /\ resp.op = "submit_performance"
    /\ resp.sent = << Debrief9, BonusLevel >>
    /\ UserExists(resp.target)
    /\ resp.status = 422
    /\ Len(performance) = 1

----------------------------------------------------------------------------
(* C5, C6, C7: access decisions (Spec) *)

\* role of the stored identity with this email
StoredRole(email) == (CHOOSE u \in users : u.email = email).role

\* the last response answers an authenticated request to one of ops
AnsweredAuthenticated(ops) == resp.op \in ops /\ resp.status # 401

\* the claim's decision: Allow for the owner and for an Admin
SelfOrAdmin(requester, target) ==
    requester = target \/ StoredRole(requester) = "Admin"

\* C5: for an authenticated requester, get_performance (target: the path
\* email) and download_report (target: the owner of the record found) answer
\* Forbidden exactly when the requester is neither the target nor an Admin.
C5_SelfOrAdmin ==
    /\ AnsweredAuthenticated({"get_performance"})
          => (resp.status = 403 <=> ~SelfOrAdmin(resp.who, resp.target))
    /\ (AnsweredAuthenticated({"download_report"}) /\ resp.status # 404)
          => /\ resp.target = performance[resp.sid].email
             /\ resp.status = 403 <=> ~SelfOrAdmin(resp.who, resp.target)
             /\ resp.status \in {200, 403}

\* a Trainee has asked for the sessions of another stored identity, which has one
C5_Witness ==
    /\ resp.op = "get_performance"
    /\ resp.status = 403
    /\ UserExists(resp.target)
    /\ StoredRole(resp.who) = "Trainee"
    /\ \E r \in Range(performance) : r.email = resp.target

\* C6: GET /admin/users and GET /admin/all-sessions answer an authenticated
\* requester with the listing exactly when the requester's role is Admin, and
\* with 403 and no rows otherwise.
C6_AdminOnly ==
    AnsweredAuthenticated({"get_all_users", "get_all_sessions"}) =>
        /\ resp.status = 200 <=> StoredRole(resp.who) = "Admin"
        /\ resp.status # 200 => (resp.status = 403 /\ resp.body = {})
        /\ (resp.status = 200 /\ resp.op = "get_all_users") => resp.body = users
        /\ (resp.status = 200 /\ resp.op = "get_all_sessions")
              => resp.body = Range(performance)

\* a Trainee has asked for all sessions while the store holds one
C6_Witness ==
    /\ resp.op = "get_all_sessions"
    /\ resp.status = 403
    /\ StoredRole(resp.who) = "Trainee"
    /\ performance # << >>

\* C7 as claimed: get_performance answers NotFound when the target identity
\* does not exist, Forbidden when it exists and the requester is neither the
\* owner nor an Admin, and the sessions otherwise.
C7_NotFoundBeforeForbidden ==
    AnsweredAuthenticated({"get_performance"}) =>
        resp.status = IF ~UserExists(resp.target) THEN 404
                      ELSE IF ~SelfOrAdmin(resp.who, resp.target) THEN 403
                      ELSE 200

\* C7 amended: get_performance answers Forbidden when the requester is neither
\* the owner nor an Admin, whether or not the target identity exists; NotFound
\* when the requester is allowed and the target does not exist; the sessions
\* otherwise.  Forbidden and NotFound differ in status and in detail.
C7_ForbiddenBeforeNotFound ==
    AnsweredAuthenticated({"get_performance"}) =>
        /\ resp.status = IF ~SelfOrAdmin(resp.who, resp.target) THEN 403
                         ELSE IF ~UserExists(resp.target) THEN 404
                         ELSE 200
        /\ resp.status = 403 => resp.detail = "Not authorized to access this user's data"
        /\ resp.status = 404 => resp.detail = "User not found with email"
        /\ resp.status = 200 => resp.body = get_user_performance_data(resp.target)

\* a Trainee has asked for the sessions of an email that has no identity
C7_Witness ==
    /\ resp.op = "get_performance"
    /\ resp.status # 401
    /\ StoredRole(resp.who) = "Trainee"
    /\ ~UserExists(resp.target)

----------------------------------------------------------------------------
(* C8, C9: tokens (SpecTok) *)

\* the lifetime the caller of create_access_token asked for
RequestedDays(call) ==
    IF call.expires_delta = NoDelta THEN ACCESS_TOKEN_EXPIRE_DAYS
    ELSE call.expires_delta[1]

\* C8: a token issued for an identity with a ttl decodes to the identity's
\* email at any time before issue time + ttl, and to None (InvalidToken) at
\* any time after it.
C8_TokenLifetime ==
    ret # NoResult =>
        \A call \in issued :
            call.token = arg[1].token =>
                /\ arg[1].at < call.at + RequestedDays(call) => ret[1] = call.sub
                /\ arg[1].at > call.at + RequestedDays(call) => ret[1] = None

IssuedTokens == {call.token : call \in issued}

\* C9: decode_access_token returns an email only for a token that
\* create_access_token has issued; a token whose subject, expiry or signature
\* differs from every issued token decodes to None.
C9_OnlyIssuedTokensDecode ==
    ret # NoResult =>
        /\ ret[1] # None => arg[1].token \in IssuedTokens
        /\ arg[1].token \notin IssuedTokens => ret[1] = None

\* an unexpired issued token with its subject rewritten, the signature kept,
\* has been decoded
C9_Witness ==
    /\ ret # NoResult
    /\ \E t \in IssuedTokens :
          /\ arg[1].token = [t EXCEPT !.sub = "bo@piper.io"]
          /\ t.sub = "ana@piper.io"
          /\ ~(t.exp < arg[1].at)
    /\ arg[1].token \notin IssuedTokens

----------------------------------------------------------------------------
(* C10: login failures (Spec) *)

\* what the caller of an endpoint receives
Observable(r) == [status |-> r.status, detail |-> r.detail, www |-> r.www,
                  body |-> r.body]

\* C10: every login that does not return a token is answered with one and the
\* same response (401, "Incorrect email or password", WWW-Authenticate),
\* whether the email has no identity or the password does not match; and
\* login fails in both of these cases.
C10_LoginFailsIdentically ==
    resp.op = "login" =>
        /\ resp.status # 200 =>
              Observable(resp) = [status |-> 401,
                                  detail |-> "Incorrect email or password",
                                  www |-> TRUE, body |-> {}]
        /\ ~UserExists(resp.target) => resp.status # 200

\* a login with a wrong password for a stored identity has failed
C10_Witness ==
    /\ resp.op = "login"
    /\ resp.status = 401
    /\ UserExists(resp.target)

----------------------------------------------------------------------------
(* C11: authentication failures (SpecAuth) *)

\* C11 as claimed: any two authentication failures, whatever their causes
\* (bad credentials at login, a token that is invalid, expired or whose
\* subject has no identity), are surfaced with one and the same outcome:
\* status, message and headers are identical.
C11_OneUnauthenticatedOutcome ==
    [][(resp.status = 401 /\ resp'.status = 401)
          => Observable(resp') = Observable(resp)]_vars

\* the token presented to GET /me was issued, has not expired on the day of
\* the request, and names a stored identity
PresentedTokenGood ==
    /\ resp.sent[1].token \in IssuedTokens
    /\ ~(resp.sent[1].token.exp < resp.sent[1].at)
    /\ \E u \in users : u.email = resp.sent[1].token.sub

\* C11 amended: every authentication failure is a 401 with the
\* WWW-Authenticate header and no body, and its message depends only on the
\* operation, never on the cause: "Incorrect email or password" for every
\* failed login, "Could not validate credentials" for every rejected token
\* (not issued, expired, or subject without identity); a request with a
\* token is rejected exactly in these cases.
C11_MessagePerOperation ==
    /\ resp.status = 401 =>
          Observable(resp) =
              [status |-> 401,
               detail |-> IF resp.op = "login" THEN "Incorrect email or password"
                          ELSE "Could not validate credentials",
               www |-> TRUE, body |-> {}]
    /\ resp.op = "read_users_me" =>
          (resp.status = 401 <=> ~PresentedTokenGood)

\* a token issued by the server for an email that has no identity has been
\* rejected, on a day before its expiry
C11_Witness ==
    /\ resp.op = "read_users_me"
    /\ resp.status = 401
    /\ resp.sent[1].token \in IssuedTokens
    /\ ~(resp.sent[1].token.exp < resp.sent[1].at)
    /\ ~UserExists(resp.sent[1].token.sub)

\* an issued token of a stored identity has been rejected after its expiry
C11_WitnessExpired ==
    /\ resp.op = "read_users_me"
    /\ resp.status = 401
    /\ resp.sent[1].token \in IssuedTokens
    /\ resp.sent[1].token.exp < resp.sent[1].at
    /\ UserExists(resp.sent[1].token.sub)

----------------------------------------------------------------------------
(* C12: passwords (SpecPwd) *)

\* C12: verify_password(Q, get_password_hash(P)) is true exactly when Q = P,
\* and a login for a registered email succeeds exactly with the password given
\* at registration.
C12_VerifyExactlyOwnPassword ==
    /\ ret # NoResult => (ret[1] <=> arg[1].presented = arg[1].registered)
    /\ resp.op = "login" =>
          (resp.status = 200 <=>
              /\ UserExists(resp.target)
              /\ resp.sent = << RegistrationPassword(resp.target) >>)

----------------------------------------------------------------------------
(* C13: the users table under register (Spec) *)

\* C13: no two stored identities share an email and every stored role is
\* Trainee or Admin; a well-formed register request for an email that is
\* already stored is answered "Email already registered" (400) and leaves the
\* users table as it was.
C13_UniqueEmailsKnownRoles ==
    /\ [](/\ \A u \in users, v \in users : u.email = v.email => u = v
          /\ \A u \in users : u.role \in {"Trainee", "Admin"})
    /\ [][(/\ resp'.op = "register"
            /\ \E u \in users : u.email = resp'.target
            /\ resp'.sent[1].role \in {"Trainee", "Admin"})
              => /\ resp'.status = 400
                 /\ resp'.detail = "Email already registered"
                 /\ users' = users]_vars

\* with both emails stored, an Admin registration for the email of a stored
\* Trainee has been refused
C13_Witness ==
    /\ resp.op = "register"
    /\ resp.status = 400
    /\ resp.sent[1].role = "Admin"
    /\ StoredRole(resp.target) = "Trainee"
    /\ Cardinality(users) = 2

----------------------------------------------------------------------------
(* C14: statistics (SpecStats) *)

\* number of entries of the list with this status
CountStatus(chapter_data, status) ==
    Cardinality({i \in DOMAIN chapter_data : chapter_data[i].status = status})

\* indices of the entries with a numeric score
ScoredAt(chapter_data) == {i \in DOMAIN chapter_data : chapter_data[i].score[1] = "int"}

RECURSIVE SumAt(_, _)
SumAt(chapter_data, idx) ==
    IF idx = {} THEN 0
    ELSE LET i == CHOOSE j \in idx : TRUE
         IN  chapter_data[i].score[2] + SumAt(chapter_data, idx \ {i})

\* t tenths is num / den rounded to one decimal: no tenth is nearer
NearestTenth(t, num, den) ==
    LET d == den * t - 10 * num
    IN  2 * (IF d < 0 THEN -d ELSE d) <= den

\* C14: calculate_statistics returns completed_count = the number of
\* Completed entries, average_score = the mean of the scores that are not
\* "NA" rounded to one decimal (0 when there is none), completion_rate =
\* completed_count / total_count * 100 rounded to one decimal; the record
\* scored [9,8,7,6,8,9,10], all Completed, gives 7, 7, 100.0 and 8.1, and a
\* record of "NA" entries none of which is Completed gives 0 and 0.0.
C14_Statistics ==
    ret # NoResult =>
        LET stats == ret[1]
            n == Cardinality(ScoredAt(arg))
        IN  /\ stats.completed_count = CountStatus(arg, "Completed")
            /\ n = 0 => stats.average_score = 0
            /\ n > 0 => NearestTenth(stats.average_score,
                                      SumAt(arg, ScoredAt(arg)), n)
            /\ NearestTenth(stats.completion_rate,
                            100 * CountStatus(arg, "Completed"), Len(arg))
            /\ arg = AllCompletedRecord =>
                  stats = [completed_count |-> 7, total_count |-> 7,
                           average_score |-> 81, completion_rate |-> 1000]
            /\ (n = 0 /\ CountStatus(arg, "Completed") = 0) =>
                  (stats.average_score = 0 /\ stats.completion_rate = 0)

\* the statistics of the record scored [9,8,7,6,8,9,10] have been computed
C14_Witness == ret # NoResult /\ arg = AllCompletedRecord

\* a mean exactly between two tenths (8.25) has been rounded
C14_WitnessTie ==
    /\ ret # NoResult
    /\ Cardinality(ScoredAt(arg)) = 4
    /\ SumAt(arg, ScoredAt(arg)) = 33

\* the statistics of a list of "NA" entries have been computed
C14_WitnessAllNA ==
    /\ ret # NoResult
    /\ ScoredAt(arg) = {}
    /\ Len(arg) = 7

----------------------------------------------------------------------------
(* C15: the statistics of a downloaded report (SpecReport) *)

\* C15: the statistics of every report download_report renders have
\* total_count = 7, the length of the curriculum, whatever was submitted.
C15_TotalCountIsCurriculumLength ==
    (resp.op = "download_report" /\ resp.status = 200) =>
        \A report \in resp.body : report.stats.total_count = 7

----------------------------------------------------------------------------
(* C16: remarks (SpecStats) *)

\* C16: for statistics with total_count >= 1 the remark is the full-completion
\* one exactly when completed_count = total_count, the not-started one exactly
\* when completed_count = 0, and the partial one otherwise; exactly one of the
\* three is chosen.
C16_RemarkTier ==
    (ret # NoResult /\ ret[1].total_count >= 1) =>
        /\ ret[2] \in {"FullCompletion", "Partial", "NotStarted"}
        /\ ret[2] = "FullCompletion" <=> ret[1].completed_count = ret[1].total_count
        /\ ret[2] = "NotStarted" <=> ret[1].completed_count = 0
        /\ ret[2] = "Partial" <=>
              /\ ret[1].completed_count # ret[1].total_count
              /\ ret[1].completed_count # 0

\* the remark of a list with some but not all entries Completed has been chosen
C16_Witness ==
    /\ ret # NoResult
    /\ CountStatus(arg, "Completed") \in 1..(Len(arg) - 1)
    /\ ret[2] = "Partial"

\* the remark of a list with every entry Completed has been chosen
C16_WitnessFull ==
    /\ ret # NoResult
    /\ CountStatus(arg, "Completed") = Len(arg)
    /\ ret[2] = "FullCompletion"

----------------------------------------------------------------------------
(* C17: failing submissions (SpecSubmit) *)

\* C17: a POST /performance that fails, with 404 for an email without
\* identity or with 422 for a bad score, chapter or status, leaves the users
\* table and the performance table exactly as they were.
C17_FailedSubmitChangesNothing ==
    [][(resp'.op = "submit_performance" /\ resp'.status # 201)
          => /\ resp'.status \in {404, 422}
             /\ users' = users
             /\ performance' = performance]_vars

\* a submission for an email without identity has failed while both tables
\* hold rows
C17_Witness ==
    /\ resp.op = "submit_performance"
    /\ resp.status = 404
    /\ ~UserExists(resp.target)
    /\ ValidPerformanceSubmit(resp.sent)
    /\ users # {}
    /\ performance # << >>

\* a submission with a score out of range has failed while both tables hold rows
C17_WitnessValidation ==
    /\ resp.op = "submit_performance"
    /\ resp.status = 422
    /\ resp.sent = << Score11 >>
    /\ UserExists(resp.target)
    /\ performance # << >>

----------------------------------------------------------------------------
(* C18: append-only tables (Spec) *)

\* the rows of the performance table owned by this email
History(table, email) == {table[i] : i \in {j \in DOMAIN table : table[j].email = email}}

\* C18: no step removes or changes a stored identity or a stored record; a
\* successful POST /performance adds exactly one record, to the history of
\* the submitted email, and every other step leaves the performance table as
\* it was.
C18_AppendOnly ==
    [][/\ users \subseteq users'
       /\ Len(performance') >= Len(performance)
       /\ \A i \in DOMAIN performance : performance'[i] = performance[i]
       /\ IF resp'.op = "submit_performance" /\ resp'.status = 201
          THEN /\ Len(performance') = Len(performance) + 1
               /\ Cardinality(History(performance', resp'.target))
                     = Cardinality(History(performance, resp'.target)) + 1
               /\ \A e \in Emails \ {resp'.target} :
                     History(performance', e) = History(performance, e)
          ELSE performance' = performance]_vars

\* a second record has been added to the history of an identity
C18_Witness ==
    /\ resp.op = "submit_performance"
    /\ resp.status = 201
    /\ Cardinality(History(performance, resp.target)) = 2

----------------------------------------------------------------------------
(* C19: the expiry of an issued token (SpecTok) *)

\* C19: create_access_token gives the token the subject it was called with
\* and the expiry issue time + ttl for every ttl the caller supplies, zero
\* included, and issue time + 30 days only when no ttl is supplied.
C19_ExpiryIsNowPlusTtl ==
    \A call \in issued :
        /\ call.token.sub = call.sub
        /\ call.expires_delta # NoDelta =>
              call.token.exp = call.at + call.expires_delta[1]
        /\ call.expires_delta = NoDelta =>
              call.token.exp = call.at + 30

----------------------------------------------------------------------------
(* C20: the entries of stored records (SpecSubmit) *)

\* an entry with a curriculum chapter, a score that is an integer from 0 to
\* 10 or "NA", and one of the three statuses
EntryInDomain(e) ==
    /\ e.chapter \in Range(VALID_CHAPTERS)
    /\ \/ e.score = << "str", "NA" >>
       \/ e.score[1] = "int" /\ e.score[2] \in 0..10
    /\ e.status \in {"Completed", "Pending", "Not Completed"}

\* C20: every entry of every stored record has a curriculum chapter, a score
\* that is an integer from 0 to 10 or "NA", and a status among Completed,
\* Pending, Not Completed; a submission with an entry that has not is
\* answered with a validation error (422).
C20_StoredEntriesInDomain ==
    /\ \A r \in Range(performance) :
          \A i \in DOMAIN r.chapter_data : EntryInDomain(r.chapter_data[i])
    /\ (/\ resp.op = "submit_performance"
        /\ \E i \in DOMAIN resp.sent : ~EntryInDomain(resp.sent[i]))
          => (resp.status = 422 /\ resp.detail = "validation error")

\* a submission with an unknown status for a stored identity has been
\* rejected, after one with an auto-filled record was stored
C20_Witness ==
    /\ resp.op = "submit_performance"
    /\ resp.status = 422
    /\ resp.sent = << StatusDone >>
    /\ UserExists(resp.target)
    /\ \E r \in Range(performance) :
          \E i \in DOMAIN r.chapter_data : r.chapter_data[i].score = NA

----------------------------------------------------------------------------
(* C21: the order of the steps of a read request (Spec) *)

\* C21 as claimed: a read request (get_performance, download_report) with a
\* token that is not valid is answered Unauthenticated, and it is answered
\* NotFound, the outcome that tells whether the requested resource is stored,
\* only after the authorization has allowed the requester: the owner or an
\* Admin for get_performance, and for a session that is not stored, which has
\* no owner, an Admin.
C21_AuthenticateAuthorizeThenStore ==
    resp.op \in {"get_performance", "download_report"} =>
        /\ ~PresentedTokenGood => resp.status = 401
        /\ (resp.op = "get_performance" /\ resp.status = 404)
              => SelfOrAdmin(resp.who, resp.target)
        /\ (resp.op = "download_report" /\ resp.status = 404)
              => StoredRole(resp.who) = "Admin"

\* C21 amended: every read request is authenticated first (401 exactly when
\* the token is not valid, whatever is stored).  get_performance then
\* authorizes and only then looks the target up, so it answers NotFound only
\* to the owner or an Admin.  download_report then looks the session up,
\* answering NotFound to any authenticated requester when it is not stored,
\* and only then authorizes the requester against the owner of the session
\* found.
C21_AuthenticateFirst ==
    resp.op \in {"get_performance", "download_report"} =>
        /\ resp.status = 401 <=> ~PresentedTokenGood
        /\ (resp.op = "get_performance" /\ resp.status = 404)
              => SelfOrAdmin(resp.who, resp.target)
        /\ (resp.op = "download_report" /\ resp.status # 401) =>
              /\ resp.status = 404 <=> resp.sid \notin DOMAIN performance
              /\ resp.status = 403 <=>
                    /\ resp.sid \in DOMAIN performance
                    /\ ~SelfOrAdmin(resp.who, performance[resp.sid].email)
              /\ resp.status \in {200, 403, 404}

\* a Trainee has asked for the report of a session that is not stored, while
\* another session is
C21_Witness ==
    /\ resp.op = "download_report"
    /\ resp.status = 404
    /\ StoredRole(resp.who) = "Trainee"
    /\ resp.sid \notin DOMAIN performance
    /\ performance # << >>

\* a forged token has been presented for a session that is not stored
C21_WitnessUnauthenticated ==
    /\ resp.op = "download_report"
    /\ resp.status = 401
    /\ resp.sent[1].token \notin IssuedTokens
    /\ resp.sid \notin DOMAIN performance

----------------------------------------------------------------------------
(* C22: POST /performance needs no token (SpecReport) *)

\* C22: POST /performance is answered 201, 404 (no identity with the email)
\* or 422 (validation error) and never 401 or 403; a submission of at least
\* one entry, all in the domain, for the email of a stored identity is stored
\* under that email, whether or not any token has been issued.
C22_SubmitNeedsNoToken ==
    resp.op = "submit_performance" =>
        /\ resp.status \in {201, 404, 422}
        /\ (/\ Len(resp.sent) >= 1
            /\ \A i \in DOMAIN resp.sent : EntryInDomain(resp.sent[i])
            /\ UserExists(resp.target))
              => /\ resp.status = 201
                 /\ resp.sid \in DOMAIN performance
                 /\ performance[resp.sid].email = resp.target

\* a submission has been stored while no token has ever been issued
C22_Witness ==
    /\ resp.op = "submit_performance"
    /\ resp.status = 201
    /\ wire = {}
    /\ issued = {}

\* a submission for one identity has been stored while the only token issued
\* is another identity's
C22_WitnessOtherToken ==
    /\ resp.op = "submit_performance"
    /\ resp.status = 201
    /\ wire # {}
    /\ \A t \in wire : t.sub # resp.target

----------------------------------------------------------------------------
(* C23: registrations at the same time (SpecRace) *)

\* C23: however POST /register requests for one email interleave, also when
\* both look the email up before either inserts, every well-formed request
\* ends with the new identity (201) or with "Email already registered"
\* (400) and with nothing else, at most one of two requests for the same
\* email ends with 201, and the users table holds one row for the email.
C23_OneRegistrationWins ==
    /\ \A c \in Callers :
          (calls[c].pc = "done" /\ calls[c].role \in {"Trainee", "Admin"})
              => calls[c].status \in {201, 400}
    /\ \A c \in Callers, d \in Callers :
          (/\ c # d
           /\ calls[c].pc = "done" /\ calls[d].pc = "done"
           /\ calls[c].email = calls[d].email)
              => ~(calls[c].status = 201 /\ calls[d].status = 201)
    /\ \A u \in users, v \in users : u.email = v.email => u = v

----------------------------------------------------------------------------
(* C24: tokens are not revoked (SpecSession) *)

\* C24: a token issued by a login is accepted by every request that presents
\* it on a day that is not after its expiry, whatever has happened since it
\* was issued: later logins of the same identity, the logout of the
\* dashboard, registrations, submissions.
C24_NeverRevoked ==
    (/\ resp.op \in {"read_users_me", "get_performance"}
     /\ resp.sent[1].token \in IssuedTokens
     /\ ~(resp.sent[1].token.exp < resp.sent[1].at))
        => resp.status = 200

\* after the dashboard has logged out and a day after a later login of the
\* same identity, the earlier token has been accepted
C24_Witness ==
    /\ resp.op = "read_users_me"
    /\ resp.status = 200
    /\ session_state.token = << >>
    /\ \E call \in issued :
          /\ call.sub = resp.sent[1].token.sub
          /\ call.at > resp.sent[1].token.exp - ACCESS_TOKEN_EXPIRE_DAYS
          /\ call.at < resp.sent[1].at

----------------------------------------------------------------------------
(* C28: the dashboard's session state (SpecSession) *)

\* C28: token is None exactly when user is None and exactly when page is
\* "login", and the dashboard is shown exactly while token is set; a
\* registration or a failed login leaves the three fields as they were; the
\* fields change only all together: set by a successful login, to a token
\* the server has issued for the user kept, or cleared by logout.
C28_SessionFieldsMoveTogether ==
    /\ [](/\ session_state.token = << >> <=> session_state.user = << >>
          /\ session_state.token = << >> <=> session_state.page = "login"
          /\ View = "dashboard" <=> session_state.token # << >>)
    /\ [][/\ (resp' # resp /\ resp'.op = "register")
               => session_state' = session_state
          /\ (resp' # resp /\ resp'.op = "login" /\ resp'.status # 200)
               => session_state' = session_state
          /\ session_state' # session_state =>
               \/ /\ session_state = [token |-> << >>, user |-> << >>,
                                       page |-> "login"]
                  /\ session_state'.token # << >>
                  /\ session_state'.token[1] \in wire'
                  /\ session_state'.user # << >>
                  /\ session_state'.user[1].email = session_state'.token[1].sub
                  /\ session_state'.page = "dashboard"
               \/ /\ session_state.token # << >>
                  /\ session_state' = [token |-> << >>, user |-> << >>,
                                        page |-> "login"]]_vars

\* the dashboard has logged out after a login, and a login with a wrong
\* password has then failed
C28_Witness ==
    /\ session_state = [token |-> << >>, user |-> << >>, page |-> "login"]
    /\ wire # {}
    /\ resp.op = "login"
    /\ resp.status = 401
    /\ UserExists(resp.target)

----------------------------------------------------------------------------
(* C25: what a Trainee learns about other emails (Spec) *)

\* C25: get_performance answers an authenticated Trainee who asks for an
\* email other than the Trainee's own with one and the same Forbidden
\* response, whether or not an identity with that email is stored; only the
\* owner or an Admin is ever answered "User not found".
C25_TraineeLearnsNothing ==
    (resp.op = "get_performance" /\ resp.status # 401) =>
        /\ (StoredRole(resp.who) = "Trainee" /\ resp.target # resp.who) =>
              Observable(resp) =
                  [status |-> 403,
                   detail |-> "Not authorized to access this user's data",
                   www |-> FALSE, body |-> {}]
        /\ resp.status = 404 =>
              (StoredRole(resp.who) = "Admin" \/ resp.who = resp.target)

\* a Trainee holding an issued token has been refused the sessions of an
\* email that has no identity, with the response a stored email gets
C25_Witness ==
    /\ resp.op = "get_performance"
    /\ resp.status = 403
    /\ resp.detail = "Not authorized to access this user's data"
    /\ StoredRole(resp.who) = "Trainee"
    /\ resp.target # resp.who
    /\ ~UserExists(resp.target)

----------------------------------------------------------------------------
(* C26: the owner of a stored record (SpecReport) *)

\* C26: the email of every row of the performance table is the email of a
\* row of the users table, and a report download_report renders carries the
\* user data of the owner of its session.
C26_RecordOwnersExist ==
    /\ \A r \in Range(performance) : \E u \in users : u.email = r.email
    /\ (resp.op = "download_report" /\ resp.status = 200) =>
          \A report \in resp.body :
              /\ report.user_data.email = performance[resp.sid].email
              /\ \E u \in users : /\ u.email = report.user_data.email
                                   /\ u.trainee_name = report.user_data.trainee_name

\* a report has been rendered while the only stored identity owns two records
C26_Witness ==
    /\ resp.op = "download_report"
    /\ resp.status = 200
    /\ Cardinality(users) = 1
    /\ Len(performance) = 2

----------------------------------------------------------------------------
(* C27: the empty submission (SpecSubmit) *)

\* C27: a POST /performance with no chapters is answered with a validation
\* error (422) and the performance table stays as it was; the record a
\* successful submission stores holds, unchanged, every entry that was
\* submitted, and there is at least one.
C27_EmptySubmissionRejected ==
    /\ [][(resp'.op = "submit_performance" /\ resp'.sent = << >>)
              => (resp'.status = 422 /\ performance' = performance)]_vars
    /\ [](\A r \in Range(performance) : r.chapter_data # << >>)
    /\ []((resp.op = "submit_performance" /\ resp.status = 201) =>
             /\ Len(resp.sent) >= 1
             /\ \A i \in DOMAIN resp.sent :
                   \E k \in DOMAIN performance[resp.sid].chapter_data :
                       performance[resp.sid].chapter_data[k] = resp.sent[i])

\* an empty submission for a stored identity has been rejected after a record
\* of that identity was stored
C27_Witness ==
    /\ resp.op = "submit_performance"
    /\ resp.sent = << >>
    /\ resp.status = 422
    /\ UserExists(resp.target)
    /\ \E r \in Range(performance) : r.email = resp.target

====
